---- MODULE Spec2Model ----
(***************************************************************************)
(* A model of market.js: one Market (one hypertrie database) on which one  *)
(* Seller is created with `sell` and Buyer objects with `buy`, and the     *)
(* protocol streams the two `replicate` methods return.                    *)
(*                                                                         *)
(* Every asynchronous callback of the source is one action.  An operation  *)
(* that is in flight is a value of a `pc` field; its callback fires at any *)
(* later time.  Database writes go through hypertrie's write lock, so they *)
(* are applied in the order they were issued (the queue `puts`); a read    *)
(* returns the contents at the time its callback runs.                     *)
(***************************************************************************)
EXTENDS Integers, Sequences, FiniteSets, TLC

(* ------------------------------ bounds -------------------------------- *)

\* entitlement checks invoked, over all sessions
MaxChecks == 3

\* the connection slots: transports that can be open at the same time
Conns == {1, 2}

(* ------------------------- values of the source ----------------------- *)

None == "null"
NoError == "null"

\* a Buffer and a JavaScript string are different kinds of value
Buffer(bytes) == [type |-> "Buffer", data |-> bytes]
String(chars) == [type |-> "string", data |-> chars]

HexDigits == <<"0","1","2","3","4","5","6","7","8","9","a","b","c","d","e","f">>

HexValue(ch) == (CHOOSE i \in 1..16 : HexDigits[i] = ch) - 1

RECURSIVE HexOfBytes(_)
HexOfBytes(bytes) ==
  IF bytes = <<>> THEN <<>>
  ELSE <<HexDigits[(Head(bytes) \div 16) + 1], HexDigits[(Head(bytes) % 16) + 1]>>
         \o HexOfBytes(Tail(bytes))

RECURSIVE BytesOfHex(_)
BytesOfHex(chars) ==
  IF Len(chars) < 2 THEN <<>>
  ELSE <<16 * HexValue(chars[1]) + HexValue(chars[2])>>
         \o BytesOfHex(Tail(Tail(chars)))

\* buf.toString('hex')
toStringHex(buf) == String(HexOfBytes(buf.data))

\* Buffer.from(x, 'hex'): parses a string, copies a Buffer
BufferFromHex(x) ==
  IF x.type = "Buffer" THEN Buffer(x.data) ELSE Buffer(BytesOfHex(x.data))

decodeKeys(keys) ==
  [publicKey |-> BufferFromHex(keys.publicKey),
   secretKey |-> BufferFromHex(keys.secretKey)]

encodeKeys(keys) ==
  [publicKey |-> toStringHex(keys.publicKey),
   secretKey |-> toStringHex(keys.secretKey)]

\* the n-th key pair the key generator returns (crypto.keyPair, Protocol.keyPair)
KeyPairNo(n) ==
  [publicKey |-> Buffer(<<9 + n>>), secretKey |-> Buffer(<<9 + n, 200 + n>>)]

\* the public key of the master feed the Seller sells
FeedKey == Buffer(<<171>>)

\* the static key of a peer that is not this Market's Buyer and connects to the seller
PeerKey == Buffer(<<64>>)

\* the static key of a peer that is not the seller
ImpostorKey == Buffer(<<238>>)

\* the key pair the transport negotiates for its n-th handshake when it is given none
EphemeralKeyPair(n) ==
  [publicKey |-> Buffer(<<128 + n>>), secretKey |-> Buffer(<<128 + n, 1>>)]

\* the entitlement check's results: an error message, or success with an info value
Reasons == {"expired", "unpaid"}
Infos == {None, "info"}

(* ------------------------------ db keys -------------------------------- *)

MarketKeyPath == <<"buys/key-pair">>
SellerKeyPath == <<"sales/">> \o toStringHex(FeedKey).data \o <<"/key-pair">>
CapabilityPath(remotePublicKey) ==
  <<"sales/">> \o toStringHex(FeedKey).data \o <<"/feeds/">> \o toStringHex(remotePublicKey).data
BuyPath(seller) == <<"buys/feeds/">> \o toStringHex(seller).data

(* ------------------------------- state --------------------------------- *)

VARIABLES
  db,        \* the hypertrie: db key -> stored JSON value
  puts,      \* db.put calls issued and not yet applied, in issue order
  market,    \* the Market object
  seller,    \* the Seller object
  buyer,     \* the Buyer object (market.buy), once constructed
  conn,      \* per connection slot: the transport
  sessions,  \* per connection slot: the closure of Seller.replicate
  streams,   \* per connection slot: the stream of Buyer.replicate
  count,     \* key pairs generated, entitlement checks invoked
  history,   \* what was observed over all connections
  twin       \* the Seller market.sell(feed) made last for the feed of seller

vars ==
  <<db, puts, market, seller, buyer, conn, sessions, streams, count, history, twin>>

\* obj.name for an object given as a record: undefined when the property does not exist
Property(obj, name) == IF name \in DOMAIN obj THEN obj[name] ELSE <<>>

\* db.get(key): the node, or nothing
Node(key) == IF key \in DOMAIN db THEN <<db[key]>> ELSE <<>>

\* the trie after db.put(key, value)
Stored(key, value) ==
  [k \in DOMAIN db \cup {key} |-> IF k = key THEN value ELSE db[k]]

\* a unique feed handle (multikey(self.feed, keys)): its key is the capability public key
multikey(keyPair) ==
  [key |-> keyPair.publicKey, uploading |-> TRUE, replicating |-> FALSE, closed |-> 0]

\* what one run of setUploading did: the messages it sent on the 'valid' and 'invalid'
\* channels, the events it emitted, its calls of uniqueFeed.setUploading
Silent ==
  [valid |-> <<>>, invalid |-> <<>>, validEvents |-> 0, invalidEvents |-> 0,
   setUploading |-> <<>>]

\* the closure of Seller.replicate before the handshake: its variables and channels (all
\* messages sent on 'one-time-feed' and 'invalid'), what the last run of setUploading
\* did, and of the entitlement checks the result delivered last, the first result,
\* whether one succeeded, and the results of the last two checks that completed; the
\* calls of self.validate not yet called back and the timers armed and not yet fired;
\* the handle, if any, that became ready when the transport was destroyed
NewSession ==
  [pc |-> "off", remotePublicKey |-> <<>>, destroyed |-> FALSE,
   uniqueFeed |-> <<>>, isValid |-> "undefined",
   keyPair |-> <<>>, info |-> None,
   oneTimeFeed |-> <<>>, invalid |-> <<>>, ran |-> Silent,
   result |-> "none", first |-> "none", succeeded |-> FALSE,
   prev |-> "none", last |-> "none",
   recordsPut |-> 0, validating |-> 0, timers |-> 0, stray |-> <<>>]

\* the stream of Buyer.replicate before the handshake
NewStream ==
  [pc |-> "off", remotePublicKey |-> <<>>, keyPair |-> <<>>, received |-> 0,
   replicated |-> 0, attached |-> 0, hadRecord |-> FALSE]

\* before market.buy
NoBuyer ==
  [built |-> FALSE, seller |-> <<>>, feed |-> <<>>, ctor |-> "off", record |-> "off"]

NoConn == [kind |-> "none", open |-> FALSE]

Init ==
  /\ db = [k \in {} |-> <<>>]
  /\ puts = <<>>
  /\ market = [pc |-> "get", _keyPair |-> <<>>]
  /\ seller = [pc |-> "get", _keyPair |-> <<>>, info |-> None]
  /\ buyer = NoBuyer
  /\ conn = [c \in Conns |-> NoConn]
  /\ sessions = [c \in Conns |-> NewSession]
  /\ streams = [c \in Conns |-> NewStream]
  /\ count = [keys |-> 0, checks |-> 0]
  /\ history = [issued |-> {}, buyerKeys |-> {}, stored |-> {}]
  /\ twin = [pc |-> "off", _keyPair |-> <<>>]

(* ------------------------- identity key pairs -------------------------- *)

\* loadKey, the db.get callback (lines 406-410): the stored key pair, or a new one to put
loadKey(key, owner) ==
  IF Node(key) # <<>>
  THEN [pc |-> "ready", keyPair |-> <<decodeKeys(Node(key)[1])>>, put |-> <<>>, made |-> 0]
  ELSE [pc |-> "put", keyPair |-> <<>>, made |-> 1,
        put |-> <<[key |-> key, value |-> encodeKeys(KeyPairNo(count.keys + 1)),
                   cb |-> <<owner, 0>>, keyPair |-> <<KeyPairNo(count.keys + 1)>>]>>]

\* Market._ready: the db.get callback of loadKey(db, 'buys/key-pair')
MarketLoadKey ==
  /\ market.pc = "get"
  /\ LET r == loadKey(MarketKeyPath, "market") IN
       /\ market' = [market EXCEPT !.pc = r.pc, !._keyPair = r.keyPair]
       /\ puts' = puts \o r.put
       /\ count' = [count EXCEPT !.keys = @ + r.made]
  /\ UNCHANGED <<db, seller, buyer, conn, sessions, streams, history, twin>>

\* Market._ready: the db.put callback of loadKey
MarketKeyStored ==
  /\ market.pc = "put"
  /\ puts # <<>> /\ Head(puts).cb = <<"market", 0>>
  /\ db' = Stored(Head(puts).key, Head(puts).value)
  /\ puts' = Tail(puts)
  /\ market' = [market EXCEPT !.pc = "ready", !._keyPair = Head(puts).keyPair]
  /\ UNCHANGED <<seller, buyer, conn, sessions, streams, count, history, twin>>

\* Seller._ready: feed.ready, then the db.get callback of loadKey
SellerLoadKey ==
  /\ seller.pc = "get"
  /\ LET r == loadKey(SellerKeyPath, "seller") IN
       /\ seller' = [seller EXCEPT !.pc = r.pc, !._keyPair = r.keyPair]
       /\ puts' = puts \o r.put
       /\ count' = [count EXCEPT !.keys = @ + r.made]
  /\ UNCHANGED <<db, market, buyer, conn, sessions, streams, history, twin>>

\* Seller._ready: the db.put callback of loadKey
SellerKeyStored ==
  /\ seller.pc = "put"
  /\ puts # <<>> /\ Head(puts).cb = <<"seller", 0>>
  /\ db' = Stored(Head(puts).key, Head(puts).value)
  /\ puts' = Tail(puts)
  /\ seller' = [seller EXCEPT !.pc = "ready", !._keyPair = Head(puts).keyPair]
  /\ UNCHANGED <<market, buyer, conn, sessions, streams, count, history, twin>>

\* market.sell(feed) once more: the Seller constructor calls ready (lines 216-221)
\* and the Seller made before it, if any, has loaded its identity
SellAgain ==
  /\ twin.pc \in {"off", "ready"}
  /\ twin' = [pc |-> "get", _keyPair |-> <<>>]
  /\ UNCHANGED <<db, puts, market, seller, buyer, conn, sessions, streams, count, history>>

\* the second Seller's _ready: feed.ready, then the db.get callback of loadKey
TwinLoadKey ==
  /\ twin.pc = "get"
  /\ LET r == loadKey(SellerKeyPath, "twin") IN
       /\ twin' = [twin EXCEPT !.pc = r.pc, !._keyPair = r.keyPair]
       /\ puts' = puts \o r.put
       /\ count' = [count EXCEPT !.keys = @ + r.made]
  /\ UNCHANGED <<db, market, seller, buyer, conn, sessions, streams, history>>

\* the second Seller's _ready: the db.put callback of loadKey
TwinKeyStored ==
  /\ twin.pc = "put"
  /\ puts # <<>> /\ Head(puts).cb = <<"twin", 0>>
  /\ db' = Stored(Head(puts).key, Head(puts).value)
  /\ puts' = Tail(puts)
  /\ twin' = [twin EXCEPT !.pc = "ready", !._keyPair = Head(puts).keyPair]
  /\ UNCHANGED <<market, seller, buyer, conn, sessions, streams, count, history>>

(* ------------------------------ transport ------------------------------ *)

\* a closure or stream with nothing in flight
Quiet(pc) == pc \in {"off", "idle", "error", "closed", "rejected"}

\* the key pair the Buyer's keyPair callback hands to the transport (line 147)
BuyerKeyPair == Property(market, "keyPair")

\* the transport authenticates with the key pair it is handed, or negotiates one
LocalKeyPair(handed, n) == IF handed = <<>> THEN EphemeralKeyPair(n) ELSE handed[1]

\* a slip in line 151: every remote is accepted
onauthenticateAny(remotePublicKey) == TRUE

\* Buyer.replicate/onauthenticate (lines 150-155): accepted or not
onauthenticate(remotePublicKey) == <<remotePublicKey>> = buyer.seller

\* a peer opens a transport: seller.replicate() and/or buyer.replicate() build a stream
Connect(c, kind) ==
  /\ ~conn[c].open
  /\ Quiet(sessions[c].pc) /\ Quiet(streams[c].pc)
  /\ \A p \in DOMAIN puts : puts[p].cb # <<"session", c>>
  /\ \A d \in Conns : d < c => conn[d].open \/ ~Quiet(sessions[d].pc) \/ ~Quiet(streams[d].pc)
  /\ seller.pc = "ready" /\ market.pc = "ready"
  /\ kind \in {"buyer", "impostor"} => buyer.built
  /\ conn' = [conn EXCEPT ![c] = [kind |-> kind, open |-> TRUE]]
  /\ sessions' = [sessions EXCEPT ![c] =
       IF kind \in {"buyer", "peer"} THEN [NewSession EXCEPT !.pc = "handshake"]
       ELSE NewSession]
  /\ streams' = [streams EXCEPT ![c] =
       IF kind \in {"buyer", "impostor"}
       THEN [NewStream EXCEPT !.pc = "handshake",
                              !.hadRecord = Node(BuyPath(buyer.seller[1])) # <<>>]
       ELSE NewStream]
  /\ UNCHANGED <<db, puts, market, seller, buyer, count, history, twin>>

\* a slip in lines 315 and 334: the next check is scheduled when a check is invoked
validateAtFixedRate(s) ==
  IF s.destroyed THEN [s EXCEPT !.pc = "idle"]
  ELSE [s EXCEPT !.pc = "validate", !.validating = @ + 1, !.timers = @ + 1]

\* Seller.replicate/validate (lines 331-338), up to the call of self.validate
validate(s) ==
  IF s.destroyed THEN [s EXCEPT !.pc = "idle"]
  ELSE [s EXCEPT !.pc = "validate", !.validating = @ + 1]

\* the handshake completes: both keyPair callbacks have answered, onauthenticate on
\* both sides, then the seller's onhandshake (line 288)
Handshake(c) ==
  /\ conn[c].open
  /\ LET kind == conn[c].kind
         local == LocalKeyPair(BuyerKeyPair, count.checks + 1)
         remote == IF kind = "peer" THEN PeerKey ELSE local.publicKey
         answering == IF kind = "impostor" THEN ImpostorKey ELSE seller._keyPair[1].publicKey
     IN
       /\ kind \in {"buyer", "peer"} =>
            /\ sessions[c].pc = "handshake"
            /\ seller.pc = "ready"
            /\ count.checks < MaxChecks
       /\ kind \in {"buyer", "impostor"} =>
            /\ streams[c].pc = "handshake"
            /\ market.pc = "ready"
       /\ streams' = [streams EXCEPT ![c] =
            IF kind = "peer" THEN @
            ELSE [@ EXCEPT !.pc = IF onauthenticate(answering) THEN "open" ELSE "rejected",
                           !.keyPair = BuyerKeyPair,
                           !.remotePublicKey = <<answering>>]]
       /\ sessions' = [sessions EXCEPT ![c] =
            IF kind = "impostor" THEN @
            ELSE validate([@ EXCEPT !.remotePublicKey = <<remote>>])]
       /\ conn' = [conn EXCEPT ![c].open = kind # "impostor" \/ onauthenticate(answering)]
       /\ count' = [count EXCEPT !.checks = @ + IF kind = "impostor" THEN 0 ELSE 1]
       /\ history' = [history EXCEPT !.buyerKeys =
            IF kind = "buyer" THEN @ \cup {remote} ELSE @]
  /\ UNCHANGED <<db, puts, market, seller, buyer, twin>>

(* --------------------------- seller session ---------------------------- *)

\* a slip in line 291: uploading whatever the outcome
UploadingAlways(error) == TRUE

\* line 291
Uploading(error) == error = NoError

\* a slip in line 297: a deny on every failed check
DeniesAlways(isValid) == TRUE

\* line 297: a deny is due
Denies(isValid) == isValid # "false"

\* line 306: the check returned an info object
IsObject(info) == info # None

\* uniqueFeed.setUploading(uploading) on the attached handle, if any (lines 292-294)
Toggled(uniqueFeed, uploading) ==
  IF uniqueFeed # <<>> THEN <<[uniqueFeed[1] EXCEPT !.uploading = uploading]>>
  ELSE uniqueFeed

\* a slip in line 315: the next check is scheduled only after a success
rearmOnSuccess(s, error) ==
  IF error = NoError THEN [s EXCEPT !.pc = "timeout", !.timers = @ + 1]
  ELSE [s EXCEPT !.pc = "idle"]

\* line 315: the timer of the next check is armed, whatever the result
rearm(s, error) == [s EXCEPT !.pc = "timeout", !.timers = @ + 1]

\* Seller.replicate/setUploading (lines 290-316) on the closure s
setUploading(s, error, info) ==
  LET t == rearm([s EXCEPT !.uniqueFeed = Toggled(@, Uploading(error)),
                           !.ran = [Silent EXCEPT !.setUploading =
                              IF s.uniqueFeed # <<>> THEN <<Uploading(error)>> ELSE <<>>]],
                 error)
  IN IF error # NoError
     THEN IF Denies(s.isValid)
          THEN [t EXCEPT !.isValid = "false",
                         !.invalid = Append(@, [error |-> error]),
                         !.ran.invalid = <<[error |-> error]>>,
                         !.ran.invalidEvents = 1]
          ELSE t
     ELSE IF IsObject(info)
          THEN [t EXCEPT !.isValid = "true",
                         !.ran.validEvents = 1,
                         !.ran.valid = <<info>>]
          ELSE [t EXCEPT !.isValid = "true", !.ran.validEvents = 1]

\* self.info after setUploading (line 307)
SellerInfo(error, info) ==
  IF error = NoError /\ IsObject(info) THEN [seller EXCEPT !.info = info] ELSE seller

\* a slip in line 322: the handle is attached and announced on every success
attachAlways(s, feed, info) ==
  setUploading([s EXCEPT !.uniqueFeed = <<[feed EXCEPT !.replicating = TRUE]>>,
                         !.oneTimeFeed = Append(@, feed.key)],
               NoError, info)

\* onvalidate, the getUniqueFeed callback on success (lines 322-327)
attach(s, feed, info) ==
  IF s.uniqueFeed = <<>>
  THEN setUploading([s EXCEPT !.uniqueFeed = <<[feed EXCEPT !.replicating = TRUE]>>,
                              !.oneTimeFeed = Append(@, feed.key)],
                    NoError, info)
  ELSE setUploading(s, NoError, info)

\* getUniqueFeed, the getUniqueKeyPair callback on success (lines 357-359)
derive(s, keyPair) ==
  IF s.destroyed THEN [s EXCEPT !.pc = "error", !.keyPair = <<>>]
  ELSE [s EXCEPT !.pc = "ready", !.keyPair = <<decodeKeys(keyPair)>>]

\* a slip in line 319: the error of the check is ignored
FailedNever(err) == FALSE

\* closure s has become t by completing a check: the check's result is remembered
Completed(s, t) == [t EXCEPT !.prev = s.last, !.last = t.result]

\* line 319: the check failed
Failed(err) == err # NoError

\* a slip in line 335: the result of a check is used whatever became of the transport
DroppedNever(s) == FALSE

\* line 335: the result of a check is dropped when the transport is destroyed
Dropped(s) == s.destroyed

\* the callback of self.validate (lines 334-337) and onvalidate (lines 318-320)
Validated(c, err, info) ==
  /\ sessions[c].pc = "validate"
  /\ err = NoError \/ info = None
  /\ LET s == sessions[c]
         r == [s EXCEPT !.result = err,
                        !.validating = @ - 1,
                        !.first = IF @ = "none" THEN err ELSE @,
                        !.succeeded = @ \/ err = NoError]
     IN
       /\ sessions' = [sessions EXCEPT ![c] =
            IF Dropped(s) THEN [s EXCEPT !.pc = "idle", !.validating = @ - 1]
            ELSE IF Failed(err) THEN Completed(s, setUploading(r, err, None))
            ELSE IF s.uniqueFeed # <<>> THEN Completed(s, attach(r, s.uniqueFeed[1], info))
            ELSE [r EXCEPT !.pc = "get", !.info = info]]
       /\ seller' = IF Dropped(s) \/ s.uniqueFeed = <<>> THEN seller
                    ELSE SellerInfo(err, info)
  /\ UNCHANGED <<db, puts, market, buyer, conn, streams, count, history, twin>>

\* a slip in lines 378-381: the key pair is handed on when the put is issued
persistLate(s, keyPair) == derive(s, keyPair)

\* getUniqueKeyPair after db.put is issued (lines 378-382): the key pair waits for the
\* callback of the put
persist(s, keyPair) == [s EXCEPT !.pc = "put"]

\* getUniqueKeyPair, the db.get callback (lines 373-386)
CapabilityRead(c, err) ==
  /\ sessions[c].pc = "get"
  /\ LET s == sessions[c]
         node == Node(CapabilityPath(s.remotePublicKey[1]))
         keyPair == KeyPairNo(count.keys + 1)
     IN
       IF err # NoError
       THEN /\ sessions' = [sessions EXCEPT ![c].pc = "error"]
            /\ UNCHANGED <<puts, count>>
       ELSE IF node = <<>>
       THEN /\ puts' = Append(puts,
                 [key |-> CapabilityPath(s.remotePublicKey[1]),
                  value |-> [buyer |-> toStringHex(s.remotePublicKey[1]),
                             uniqueFeed |-> encodeKeys(keyPair)],
                  cb |-> <<"session", c>>, keyPair |-> <<keyPair>>])
            /\ count' = [count EXCEPT !.keys = @ + 1]
            /\ sessions' = [sessions EXCEPT ![c] = persist(s, keyPair)]
       ELSE /\ sessions' = [sessions EXCEPT ![c] =
                 derive(s, decodeKeys(node[1].uniqueFeed))]
            /\ UNCHANGED <<puts, count>>
  /\ UNCHANGED <<db, market, seller, buyer, conn, streams, history, twin>>

\* getUniqueKeyPair, the db.put callback (lines 378-381)
CapabilityStored(c, err) ==
  /\ sessions[c].pc = "put"
  /\ puts # <<>> /\ Head(puts).cb = <<"session", c>>
  /\ puts' = Tail(puts)
  /\ IF err # NoError
     THEN /\ sessions' = [sessions EXCEPT ![c].pc = "error"]
          /\ UNCHANGED <<db, history>>
     ELSE /\ db' = Stored(Head(puts).key, Head(puts).value)
          /\ sessions' = [sessions EXCEPT ![c] =
               derive([@ EXCEPT !.recordsPut = @ + 1], Head(puts).keyPair[1])]
          /\ history' = [history EXCEPT !.stored = @ \cup
               {<<sessions[c].remotePublicKey[1],
                  decodeKeys(Head(puts).value.uniqueFeed).publicKey>>}]
  /\ UNCHANGED <<market, seller, buyer, conn, streams, count, twin>>

\* a slip in line 362: the handle that is not handed on is left open
releasedNever(feed) == feed

\* line 362: feed.close()
released(feed) == [feed EXCEPT !.closed = @ + 1]

\* getUniqueFeed, the feed.ready callback (lines 359-366), then onvalidate (321-327)
FeedReady(c, err) ==
  /\ sessions[c].pc = "ready"
  /\ LET s == sessions[c]
         feed == multikey(s.keyPair[1])
         u == [s EXCEPT !.keyPair = <<>>, !.info = None]
     IN
       IF err # NoError
       THEN /\ sessions' = [sessions EXCEPT ![c] = [u EXCEPT !.pc = "error"]]
            /\ UNCHANGED <<seller, history>>
       ELSE IF s.destroyed
       THEN /\ sessions' = [sessions EXCEPT ![c] =
                 [u EXCEPT !.pc = "error", !.stray = <<released(feed)>>]]
            /\ UNCHANGED <<seller, history>>
       ELSE /\ sessions' = [sessions EXCEPT ![c] = Completed(s, attach(u, feed, s.info))]
            /\ seller' = SellerInfo(NoError, s.info)
            /\ history' = [history EXCEPT !.issued = @ \cup {<<conn[c].kind, feed.key>>}]
  /\ UNCHANGED <<db, puts, market, buyer, conn, streams, count, twin>>

\* the revalidation timer fires (line 315): validate
Timeout(c) ==
  /\ sessions[c].pc = "timeout"
  /\ count.checks < MaxChecks
  /\ sessions' = [sessions EXCEPT ![c] = validate([@ EXCEPT !.timers = @ - 1])]
  /\ count' = [count EXCEPT !.checks = @ + 1]
  /\ UNCHANGED <<db, puts, market, seller, buyer, conn, streams, history, twin>>

\* the 'close' handler of the seller's stream (lines 346-349)
onclose(s) ==
  [s EXCEPT !.destroyed = TRUE,
            !.pc = IF @ \in {"timeout", "handshake"} THEN "idle" ELSE @,
            !.timers = IF @ > 0 THEN @ - 1 ELSE 0,
            !.uniqueFeed = IF @ # <<>> THEN <<[@[1] EXCEPT !.closed = @ + 1]>> ELSE @]

\* the transport closes
Close(c) ==
  /\ conn[c].open
  /\ conn' = [conn EXCEPT ![c].open = FALSE]
  /\ sessions' = [sessions EXCEPT ![c] = IF @.pc = "off" THEN @ ELSE onclose(@)]
  /\ streams' = [streams EXCEPT ![c].pc = IF @ = "off" THEN @ ELSE "closed"]
  /\ UNCHANGED <<db, puts, market, seller, buyer, count, history, twin>>

(* -------------------------------- buyer -------------------------------- *)

\* a key a peer that is not the seller may send as a one-time feed
ForgedFeedKey == Buffer(<<255>>)

\* Buyer._setFeed (lines 184-198), up to the call of db.get
_setFeed(b, key) ==
  IF b.feed # <<>> THEN b
  ELSE [b EXCEPT !.feed = <<[key |-> key]>>, !.record = "get"]

\* market.buy(seller): the Buyer constructor (lines 101-124)
Buy ==
  /\ seller.pc = "ready"
  /\ buyer.ctor # "get" /\ buyer.record \notin {"get", "put"}
  /\ \A c \in Conns : Quiet(streams[c].pc)
  /\ buyer' = [NoBuyer EXCEPT !.built = TRUE, !.ctor = "get",
                              !.seller = <<seller._keyPair[1].publicKey>>]
  /\ UNCHANGED <<db, puts, market, seller, conn, sessions, streams, count, history, twin>>

\* the Buyer constructor's db.get callback (lines 115-118)
Remembered ==
  /\ buyer.ctor = "get"
  /\ LET node == Node(BuyPath(buyer.seller[1])) IN
       buyer' = IF node = <<>> THEN [buyer EXCEPT !.ctor = "done"]
                ELSE _setFeed([buyer EXCEPT !.ctor = "done"],
                              BufferFromHex(node[1].uniqueFeed))
  /\ UNCHANGED <<db, puts, market, seller, conn, sessions, streams, count, history, twin>>

\* _setFeed, the db.get callback (lines 192-195)
BuyRecordRead ==
  /\ buyer.record = "get"
  /\ LET k == BuyPath(buyer.seller[1]) IN
       IF Node(k) # <<>>
       THEN /\ buyer' = [buyer EXCEPT !.record = "done"]
            /\ UNCHANGED puts
       ELSE /\ buyer' = [buyer EXCEPT !.record = "put"]
            /\ puts' = Append(puts,
                 [key |-> k,
                  value |-> [seller |-> toStringHex(buyer.seller[1]),
                             uniqueFeed |-> toStringHex(buyer.feed[1].key)],
                  cb |-> <<"buyer", 0>>, keyPair |-> <<>>])
  /\ UNCHANGED <<db, market, seller, conn, sessions, streams, count, history, twin>>

\* the db.put of _setFeed is applied (line 194)
BuyRecordStored ==
  /\ buyer.record = "put"
  /\ puts # <<>> /\ Head(puts).cb = <<"buyer", 0>>
  /\ db' = Stored(Head(puts).key, Head(puts).value)
  /\ puts' = Tail(puts)
  /\ buyer' = [buyer EXCEPT !.record = "done"]
  /\ UNCHANGED <<market, seller, conn, sessions, streams, count, history, twin>>

\* the one-time-feed messages the stream of connection c can receive next
Incoming(c) ==
  IF conn[c].kind = "buyer"
  THEN IF streams[c].received < Len(sessions[c].oneTimeFeed)
       THEN {sessions[c].oneTimeFeed[streams[c].received + 1]} ELSE {}
  ELSE IF streams[c].received = 0 THEN {ForgedFeedKey} ELSE {}

\* Buyer.replicate, onmessage of 'dazaar/one-time-feed' (lines 159-163)
OneTimeFeed(c) ==
  /\ conn[c].open
  /\ streams[c].pc = "open"
  /\ \E uniqueFeed \in Incoming(c) :
       /\ buyer' = _setFeed(buyer, uniqueFeed)
       /\ streams' = [streams EXCEPT ![c].received = @ + 1,
                                     ![c].replicated = @ + 1,
                                     ![c].attached = @ + IF buyer.feed = <<>> THEN 1 ELSE 0]
  /\ UNCHANGED <<db, puts, market, seller, conn, sessions, count, history, twin>>

(* ---------------------------- specification ---------------------------- *)

\* the identities are loaded
Loading ==
  \/ MarketLoadKey
  \/ MarketKeyStored
  \/ SellerLoadKey
  \/ SellerKeyStored

\* what a seller's session does
Selling ==
  \/ \E c \in Conns : Handshake(c)
  \/ \E c \in Conns : \E err \in Reasons \cup {NoError} : \E info \in Infos :
       Validated(c, err, info)
  \/ \E c \in Conns : \E err \in {NoError, "EIO"} : CapabilityRead(c, err)
  \/ \E c \in Conns : \E err \in {NoError, "EIO"} : CapabilityStored(c, err)
  \/ \E c \in Conns : \E err \in {NoError, "EIO"} : FeedReady(c, err)
  \/ \E c \in Conns : Timeout(c)
  \/ \E c \in Conns : Close(c)

\* what a Buyer does
Buying ==
  \/ Buy
  \/ Remembered
  \/ BuyRecordRead
  \/ BuyRecordStored
  \/ \E c \in Conns : OneTimeFeed(c)

\* peers with a static key connect to the seller
SellerNext ==
  \/ Loading
  \/ \E c \in Conns : Connect(c, "peer")
  \/ Selling

SellerSpec == Init /\ [][SellerNext]_vars

\* this Market's Buyer connects to the seller and to a peer that is not the seller, one
\* connection after the other
Next ==
  \/ Loading
  \/ \E kind \in {"buyer", "impostor"} : Connect(1, kind)
  \/ Selling
  \/ Buying

Spec == Init /\ [][Next]_vars

\* the Sellers of one feed load their identity over the one store, and a Buyer is made
KeyNext ==
  \/ Loading
  \/ SellAgain
  \/ TwinLoadKey
  \/ TwinKeyStored
  \/ Buy
  \/ Remembered

KeySpec == Init /\ [][KeyNext]_vars

(* -------------------------------- claims ------------------------------- *)

\* the check completed last in closure s changed the outcome (the first one does)
Changed(s) == s.prev = "none" \/ ((s.last = NoError) # (s.prev = NoError))

\* C1: in every seller session with an attached unique feed handle, the handle's
\* uploading flag is true exactly when the entitlement check completed last succeeded.
C1_UploadingIffLastCheckSucceeded ==
  \A c \in Conns :
    sessions[c].uniqueFeed # <<>> =>
      (sessions[c].uniqueFeed[1].uploading <=> sessions[c].last = NoError)

\* a check failed after a check that succeeded, and the handle stopped uploading
C1_Witness ==
  \E c \in Conns :
    /\ sessions[c].uniqueFeed # <<>>
    /\ sessions[c].prev = NoError
    /\ sessions[c].last \in Reasons
    /\ ~sessions[c].uniqueFeed[1].uploading

\* C2: a successful check that follows a successful check emits no grant (no 'valid'
\* event, no message on the 'valid' channel); a successful check that follows a failure
\* or is the first outcome emits exactly one.
C2_GrantOnlyOnTransition ==
  \A c \in Conns :
    LET s == sessions[c] IN
      s.last = NoError =>
        IF s.prev = NoError
        THEN s.ran.validEvents = 0 /\ s.ran.valid = <<>>
        ELSE s.ran.validEvents = 1 /\ Len(s.ran.valid) <= 1

\* C3: the check completed last sent a deny (one message on the 'invalid' channel that
\* carries its failure reason, one 'invalid' event) exactly when it failed and the
\* outcome before it was not a failure; otherwise it sent none.
C3_DenyOncePerTransition ==
  \A c \in Conns :
    LET s == sessions[c] IN
      s.last # "none" =>
        IF s.last \in Reasons /\ s.prev \notin Reasons
        THEN s.ran.invalid = <<[error |-> s.last]>> /\ s.ran.invalidEvents = 1
        ELSE s.ran.invalid = <<>> /\ s.ran.invalidEvents = 0

\* a failed check followed a failed check with another reason; one deny was sent in all
C3_Witness ==
  \E c \in Conns :
    /\ sessions[c].prev \in Reasons
    /\ sessions[c].last \in Reasons
    /\ sessions[c].last # sessions[c].prev
    /\ Len(sessions[c].invalid) = 1

\* C4: on the attached handle, setUploading is called once by a check that changes the
\* outcome and not at all by a check that confirms the outcome before it.
C4_ToggleOncePerChange ==
  \A c \in Conns :
    LET s == sessions[c] IN
      s.uniqueFeed # <<>> /\ s.last # "none" =>
        Len(s.ran.setUploading) = IF Changed(s) THEN 1 ELSE 0

\* the unique feed keys sent to this Market's Buyer in one-time-feed messages
IssuedToBuyer == {m[2] : m \in {i \in history.issued : i[1] = "buyer"}}

\* the CapabilityRecords the seller holds for this Market's Buyer
BuyerCapabilities == {k \in history.buyerKeys : CapabilityPath(k) \in DOMAIN db}

\* C5: over successive connections of the Buyer to the seller every one-time-feed
\* message carries the same key, and the database holds at most one CapabilityRecord
\* for the pair.
C5_SameFeedEveryConnection ==
  /\ Cardinality(IssuedToBuyer) <= 1
  /\ Cardinality(BuyerCapabilities) <= 1

\* C6: two seller sessions for the same buyer key never send different unique feed
\* keys, and a key that was sent is the public key of the persisted CapabilityRecord.
C6_ConcurrentProvisioningConverges ==
  \A c, d \in Conns :
    LET s == sessions[c]
        t == sessions[d]
    IN
      s.oneTimeFeed # <<>> =>
        /\ t.oneTimeFeed # <<>> /\ t.remotePublicKey = s.remotePublicKey =>
             t.oneTimeFeed[1] = s.oneTimeFeed[1]
        /\ Node(CapabilityPath(s.remotePublicKey[1])) # <<>>
        /\ decodeKeys(Node(CapabilityPath(s.remotePublicKey[1]))[1].uniqueFeed).publicKey
             = s.oneTimeFeed[1]

\* C7: on every connection of the Buyer the key pair handed to the transport is the
\* Market's persisted key pair, and the seller sees the Market's buyer key as the
\* remote public key.
C7_BuyerAuthenticatesWithMarketKey ==
  \A c \in Conns :
    streams[c].remotePublicKey # <<>> =>
      /\ streams[c].keyPair = market._keyPair
      /\ conn[c].kind = "buyer" =>
           sessions[c].remotePublicKey = <<market._keyPair[1].publicKey>>

\* C8: a buyer stream whose remote public key is not the configured seller key is
\* rejected, and it has attached no feed handle (the only way to a BuyRecord write),
\* received no one-time feed and started no replication.
C8_WrongSellerNeverReplicates ==
  \A c \in Conns :
    LET s == streams[c] IN
      s.remotePublicKey # <<>> /\ s.remotePublicKey # buyer.seller =>
        s.pc = "rejected" /\ s.attached = 0 /\ s.received = 0 /\ s.replicated = 0

\* the Buyer reached a peer that is not the seller, and the stream was rejected
C8_Witness ==
  \E c \in Conns :
    streams[c].remotePublicKey = <<ImpostorKey>> /\ streams[c].pc = "rejected"

\* C9: a connection of a Buyer that had a BuyRecord when it was opened, whose handshake
\* completed and on which the seller completed a check, replicated the remembered feed
\* although no one-time-feed message was received on it before it closed.
C9_ResumesWithoutOneTimeFeed ==
  \A c \in Conns :
    LET s == streams[c] IN
      /\ s.hadRecord /\ s.pc = "closed" /\ s.remotePublicKey # <<>>
      /\ s.received = 0 /\ sessions[c].last # "none"
      => buyer.feed # <<>> /\ s.replicated > 0

\* C10: in a seller session in which every check so far failed, no one-time-feed
\* message was sent, no unique feed was provisioned or attached, the session wrote no
\* CapabilityRecord, and one 'invalid' message was sent, carrying the reason of the
\* first failure.
C10_AllFailedSendsOnlyDeny ==
  \A c \in Conns :
    LET s == sessions[c] IN
      s.first \in Reasons /\ ~s.succeeded =>
        /\ s.oneTimeFeed = <<>>
        /\ s.uniqueFeed = <<>> /\ s.keyPair = <<>>
        /\ s.pc \notin {"get", "put", "ready"}
        /\ s.recordsPut = 0
        /\ \A p \in DOMAIN puts : puts[p].cb # <<"session", c>>
        /\ s.invalid = <<[error |-> s.first]>>

\* two checks failed, for different reasons, and none succeeded
C10_Witness ==
  \E c \in Conns :
    /\ sessions[c].first \in Reasons /\ ~sessions[c].succeeded
    /\ sessions[c].prev \in Reasons
    /\ sessions[c].last \in Reasons /\ sessions[c].last # sessions[c].first

\* Market.buyer (lines 43-45): the buyer key of the Market
MarketBuyer == market._keyPair[1].publicKey

\* C11: when a fresh Buyer replicates on its connection after a first check that
\* succeeded, the key K of the one-time-feed message is the key of the Buyer's feed, a
\* CapabilityRecord keyed by (master feed, buyer key) holds the public key K, and
\* uploading is enabled on the seller's handle while the last check is a success.
C11_FreshBuyerIsProvisioned ==
  \A c \in Conns :
    LET s == sessions[c]
        b == streams[c]
    IN
      conn[c].kind = "buyer" /\ ~b.hadRecord /\ b.attached = 1 /\ b.replicated > 0
        /\ s.first = NoError
      => /\ buyer.feed = <<[key |-> s.oneTimeFeed[1]]>>
         /\ s.last = NoError => s.uniqueFeed[1].uploading
         /\ Node(CapabilityPath(MarketBuyer)) # <<>>
         /\ decodeKeys(Node(CapabilityPath(MarketBuyer))[1].uniqueFeed).publicKey
              = s.oneTimeFeed[1]

\* C12: a session sends at most one one-time-feed message however many checks succeed,
\* its handle replicates on the transport only once the message carrying its key is
\* sent, and setUploading reaches a handle only when the session has attached it.
C12_OneTimeFeedOnceBeforeReplication ==
  \A c \in Conns :
    LET s == sessions[c] IN
      /\ Len(s.oneTimeFeed) <= 1
      /\ s.uniqueFeed # <<>> /\ s.uniqueFeed[1].replicating
           => s.oneTimeFeed = <<s.uniqueFeed[1].key>>
      /\ s.uniqueFeed = <<>> => s.oneTimeFeed = <<>> /\ s.ran.setUploading = <<>>

\* two checks in a row succeeded in a session that sent its one-time-feed message
C12_Witness ==
  \E c \in Conns :
    /\ sessions[c].prev = NoError /\ sessions[c].last = NoError
    /\ Len(sessions[c].oneTimeFeed) = 1
    /\ sessions[c].ran.setUploading = <<TRUE>>

\* C13: whenever a session has sent the one-time-feed message carrying K, the write of
\* a CapabilityRecord with public key K under the key of (master feed, remote key) has
\* completed: either this session's put was called back, or the record it read was
\* written before.
C13_KeyPersistedBeforeSent ==
  \A c \in Conns :
    sessions[c].oneTimeFeed # <<>>
      => <<sessions[c].remotePublicKey[1], sessions[c].oneTimeFeed[1]>> \in history.stored

\* a session sent the key of the record it wrote itself
C13_Witness ==
  \E c \in Conns : sessions[c].oneTimeFeed # <<>> /\ sessions[c].recordsPut = 1

\* C14: once the transport of a session is closed, whatever was pending, no timer is
\* armed and the attached handle, if any, is closed; and from then on no step of the
\* session sends an extension message, emits an event, invokes an entitlement check,
\* arms a timer or attaches a handle.
C14_NothingAfterClose ==
  [][\A c \in Conns :
       sessions'[c].destroyed
         => /\ sessions'[c].pc # "timeout"
            /\ sessions'[c].uniqueFeed # <<>> => sessions'[c].uniqueFeed[1].closed = 1
            /\ sessions[c].destroyed
                 => /\ sessions'[c].oneTimeFeed = sessions[c].oneTimeFeed
                    /\ sessions'[c].invalid = sessions[c].invalid
                    /\ sessions'[c].ran = sessions[c].ran
                    /\ sessions'[c].uniqueFeed = sessions[c].uniqueFeed
                    /\ sessions'[c].pc = "validate" => sessions[c].pc = "validate"]_vars

\* a transport was closed with a handle attached and an entitlement check in flight
C14_Witness ==
  \E c \in Conns :
    /\ sessions[c].destroyed /\ sessions[c].pc = "validate"
    /\ sessions[c].uniqueFeed # <<>> /\ sessions[c].uniqueFeed[1].closed = 1

\* C15: a session has at most one entitlement check in flight and at most one timer
\* pending, never both, and neither while the provisioning of its handle is in flight:
\* the next check is scheduled only when the previous one, provisioning included, is
\* complete.
C15_OneCheckOneTimer ==
  \A c \in Conns :
    LET s == sessions[c] IN
      /\ s.validating + s.timers <= 1
      /\ s.pc \in {"get", "put", "ready"} => s.validating = 0 /\ s.timers = 0
      /\ s.timers = 1 => s.pc = "timeout"
      /\ s.validating = 1 => s.pc = "validate"

\* the third check of a session is in flight
C15_Witness ==
  \E c \in Conns :
    /\ sessions[c].validating = 1
    /\ sessions[c].prev # "none" /\ sessions[c].last # "none"

C17_ProvisioningFailureDestroysTransport ==
  \A c \in Conns :
    sessions[c].pc = "error"
      => /\ sessions[c].uniqueFeed = <<>>
         /\ sessions[c].oneTimeFeed = <<>>
         /\ sessions[c].destroyed

\* C18: when two callers of loadKey for the key of the seller's identity record have
\* both been called back, they hold the same key pair, and it is the persisted one.
C18_ConcurrentLoadKeyConverges ==
  seller.pc = "ready" /\ twin.pc = "ready"
    => /\ seller._keyPair = twin._keyPair
       /\ seller._keyPair = <<decodeKeys(Node(SellerKeyPath)[1])>>

\* C19: when a Buyer that has attached its handle receives a one-time-feed message,
\* nothing happens: the handle stays, no read or write of the BuyRecord is begun, and
\* no replication of the handle is started on the transport.
C19_FurtherOneTimeFeedIsNoOp ==
  [][\A c \in Conns :
       buyer.feed # <<>> /\ streams'[c].received = streams[c].received + 1
         => /\ buyer' = buyer
            /\ streams'[c].replicated = streams[c].replicated]_vars

\* C20: no handle of a session is closed twice; the attached handle is closed exactly
\* when the transport is (by the close handler); a handle that became ready after the
\* transport was destroyed is closed and the session has attached nothing; so when a
\* session has ended and nothing of it is in flight, each of its handles is closed once.
C20_HandlesClosedOnce ==
  \A c \in Conns :
    LET s == sessions[c] IN
      /\ s.uniqueFeed # <<>>
           => /\ s.uniqueFeed[1].closed <= 1
              /\ s.uniqueFeed[1].closed = 1 <=> s.destroyed
      /\ s.stray # <<>>
           => /\ s.stray[1].closed = 1
              /\ s.destroyed
              /\ s.uniqueFeed = <<>> /\ s.oneTimeFeed = <<>>

\* the one session's handle became ready after its transport was destroyed, and the
\* other session's attached handle was closed with its transport
C20_Witness ==
  \E c, d \in Conns :
    /\ sessions[c].stray # <<>> /\ sessions[c].stray[1].closed = 1
    /\ sessions[d].uniqueFeed # <<>> /\ sessions[d].uniqueFeed[1].closed = 1
    /\ sessions[d].destroyed /\ Quiet(sessions[d].pc)

====
